---- MODULE Spec2Model ----
(***************************************************************************)
(* form-generator: the form definition (load_config), the submission       *)
(* normalizer and the append store (submit), as implemented by the library *)
(* (src/src/lib.rs, handlers.rs, config.rs) and by the stand-alone binary   *)
(* (src/src/main.rs).                                                       *)
(*                                                                         *)
(* Strings are tuples of characters, so that trim() is computed.  The      *)
(* store file is a sequence of JSON tokens, so that serialisation, a       *)
(* partial write and parsing are computed as well.                         *)
(***************************************************************************)
EXTENDS Integers, Sequences, FiniteSets, TLC

(***************************************************************************)
(* Bounds of the model.                                                    *)
(***************************************************************************)
NumReq == 2
MaxClock == 1
MaxFields == 2
MaxFormKeys == 2

(***************************************************************************)
(* Program constants.                                                      *)
(***************************************************************************)
STATUS_OK == 200
INTERNAL_SERVER_ERROR == 500

VARIABLES
    entryPoint,   \* "lib": handlers.rs submit, "bin": main.rs submit
    cfg,          \* state.cfg.fields, a sequence of FieldDef
    file,         \* the store file at state.output_file / cfg.json_output
    file_lock,    \* state.file_lock: 0 when free, else the request holding it
    pc,           \* position of each request in submit
    form,         \* the Form<HashMap<String, String>> argument of each request
    entry,        \* the ResponseEntry built by each request
    existing,     \* the Vec<ResponseEntry> local of each request
    readAs,       \* the arm of the match on read_to_string each request took
    result,       \* the response of each request
    now,          \* Utc::now()
    initFile,     \* history: the store file when the server started
    rawFields,    \* the fields of the configuration file given to load_config
    loaded,       \* the result of load_config
    phase,        \* the process: "startup", "serving" (axum::serve), "exited"
    widgets       \* the widgets render_form has resolved, one per field so far

vars == <<entryPoint, cfg, file, file_lock, pc, form, entry, existing, readAs,
          result, now, initFile, rawFields, loaded, phase, widgets>>

Procs == 1..NumReq

(***************************************************************************)
(* Strings.                                                                *)
(***************************************************************************)
IsWhitespace(c) == c = " "

RECURSIVE TrimStart(_)
TrimStart(s) ==
    IF s = <<>> THEN s
    ELSE IF IsWhitespace(Head(s)) THEN TrimStart(Tail(s)) ELSE s

RECURSIVE TrimEnd(_)
TrimEnd(s) ==
    IF s = <<>> THEN s
    ELSE IF IsWhitespace(s[Len(s)]) THEN TrimEnd(SubSeq(s, 1, Len(s) - 1)) ELSE s

\* str::trim
Trim(s) == TrimEnd(TrimStart(s))

(***************************************************************************)
(* HashMap<K, V> as a function over its key set.                           *)
(***************************************************************************)
EmptyMap == [k \in {} |-> <<>>]
MapInsert(m, k, v) == [x \in DOMAIN m \cup {k} |-> IF x = k THEN v ELSE m[x]]
MapRemove(m, k) == [x \in DOMAIN m \ {k} |-> m[x]]

\* Option<String>
None == [some |-> FALSE, v |-> <<>>]
Some(s) == [some |-> TRUE, v |-> s]

(***************************************************************************)
(* config.rs / main.rs: load_config.  A FieldDef is modelled by its name.  *)
(***************************************************************************)
FieldDef(n) == [name |-> n]

ConfigOk(fields) == [ok |-> TRUE, err |-> "", fields |-> fields]
ConfigErr(msg) == [ok |-> FALSE, err |-> msg, fields |-> <<>>]

RECURSIVE CheckFields_InvertedInsert(_, _, _)
CheckFields_InvertedInsert(fields, i, seen) ==
    IF i > Len(fields) THEN ConfigOk(fields)
    ELSE IF Trim(fields[i].name) = <<>>
         THEN ConfigErr("field with empty name in config")
    ELSE IF fields[i].name \notin seen
         THEN ConfigErr("duplicate field name in config")
    ELSE CheckFields_InvertedInsert(fields, i + 1, seen \cup {fields[i].name})

\* the loop "for f in &cfg.fields" from field i on, with the set seen so far
RECURSIVE CheckFields(_, _, _)
CheckFields(fields, i, seen) ==
    IF i > Len(fields) THEN ConfigOk(fields)
    ELSE IF Trim(fields[i].name) = <<>>
         THEN ConfigErr("field with empty name in config")
    ELSE IF fields[i].name \in seen
         THEN ConfigErr("duplicate field name in config")
    ELSE CheckFields(fields, i + 1, seen \cup {fields[i].name})

load_config_Unchecked(fields) == ConfigOk(fields)

load_config(fields) == CheckFields(fields, 1, {})

(***************************************************************************)
(* submit, before the lock: the answers of the ResponseEntry.              *)
(***************************************************************************)
\* .map(|s| s.trim().to_string()).filter(|s| !s.is_empty())
TrimFilter(s) == IF Trim(s) = <<>> THEN None ELSE Some(Trim(s))

RECURSIVE DeclaredPass_OnlySubmitted(_, _, _, _)
DeclaredPass_OnlySubmitted(fields, i, frm, pa) ==
    IF i > Len(fields) THEN [form |-> frm, answers |-> pa]
    ELSE LET name == fields[i].name
         IN  DeclaredPass_OnlySubmitted(fields, i + 1, MapRemove(frm, name),
                IF name \in DOMAIN frm
                THEN MapInsert(pa, name, TrimFilter(frm[name]))
                ELSE pa)

\* the loop "for field in &state.cfg.fields" from field i on: form.remove and
\* processed_answers.insert; yields the form left over and the answers
RECURSIVE DeclaredPass(_, _, _, _)
DeclaredPass(fields, i, frm, pa) ==
    IF i > Len(fields) THEN [form |-> frm, answers |-> pa]
    ELSE LET name == fields[i].name
             value == IF name \in DOMAIN frm THEN TrimFilter(frm[name]) ELSE None
         IN  DeclaredPass(fields, i + 1, MapRemove(frm, name),
                          MapInsert(pa, name, value))

\* the loop "for (key, val) in form" over what the first loop left
UndeclaredPass_Skipped(frm, pa) == pa

RECURSIVE UndeclaredPass(_, _)
UndeclaredPass(frm, pa) ==
    IF DOMAIN frm = {} THEN pa
    ELSE LET key == CHOOSE k \in DOMAIN frm : TRUE
         IN  UndeclaredPass(MapRemove(frm, key),
                            MapInsert(pa, key, TrimFilter(frm[key])))

\* handlers.rs: processed_answers
processed_answers(fields, frm) ==
    LET first == DeclaredPass(fields, 1, frm, EmptyMap)
    IN  UndeclaredPass(first.form, first.answers)

\* the answers of the entry: handlers.rs normalizes, main.rs stores the form
Answers(ep, fields, frm) ==
    IF ep = "lib" THEN processed_answers(fields, frm) ELSE frm

ResponseEntry(ts, answers) == [timestamp |-> ts, answers |-> answers]

(***************************************************************************)
(* The store format: a JSON array of objects, as a sequence of tokens.     *)
(***************************************************************************)
JNull == [t |-> "null", s |-> <<>>]
JStr(s) == [t |-> "str", s |-> s]

NoObject == [timestamp |-> 0, answers |-> EmptyMap]
Punct(k) == [k |-> k, r |-> NoObject]
Object(r) == [k |-> "object", r |-> r]

\* Serialize for ResponseEntry: handlers.rs answers are Option<String>,
\* main.rs answers are String
EncodeEntry(ep, e) ==
    [timestamp |-> e.timestamp,
     answers |-> [k \in DOMAIN e.answers |->
                    IF ep = "lib"
                    THEN (IF e.answers[k].some THEN JStr(e.answers[k].v) ELSE JNull)
                    ELSE JStr(e.answers[k])]]

RECURSIVE EncodeItems(_, _)
EncodeItems(ep, v) ==
    IF v = <<>> THEN <<>>
    ELSE IF Len(v) = 1 THEN <<Object(EncodeEntry(ep, v[1]))>>
    ELSE <<Object(EncodeEntry(ep, v[1])), Punct(",")>> \o EncodeItems(ep, Tail(v))

\* serde_json::to_string_pretty(&existing)
to_string_pretty(ep, v) == <<Punct("[")>> \o EncodeItems(ep, v) \o <<Punct("]")>>

\* Deserialize for ResponseEntry: null is no String
CanDecode(ep, o) == ep = "lib" \/ \A k \in DOMAIN o.answers : o.answers[k].t = "str"

DecodeEntry(ep, o) ==
    [timestamp |-> o.timestamp,
     answers |-> [k \in DOMAIN o.answers |->
                    IF ep = "lib"
                    THEN (IF o.answers[k].t = "null" THEN None ELSE Some(o.answers[k].s))
                    ELSE o.answers[k].s]]

\* the text is "[", objects separated by ",", "]"
WellFormed(text) ==
    /\ Len(text) >= 2
    /\ text[1].k = "["
    /\ text[Len(text)].k = "]"
    /\ Len(text) = 2 \/ Len(text) % 2 = 1
    /\ \A i \in 2..(Len(text) - 1) :
          text[i].k = IF i % 2 = 0 THEN "object" ELSE ","

ParseOk(v) == [ok |-> TRUE, v |-> v]
ParseErr == [ok |-> FALSE, v |-> <<>>]

\* serde_json::from_str::<Vec<ResponseEntry>>(&raw)
from_str(ep, text) ==
    IF WellFormed(text)
       /\ \A i \in 2..(Len(text) - 1) : i % 2 = 0 => CanDecode(ep, text[i].r)
    THEN ParseOk([j \in 1..((Len(text) - 1) \div 2) |-> DecodeEntry(ep, text[2 * j].r)])
    ELSE ParseErr

(***************************************************************************)
(* The store file and the two file system calls of submit.                 *)
(***************************************************************************)
NoFile == [exists |-> FALSE, text |-> <<>>]
FileOf(text) == [exists |-> TRUE, text |-> text]

\* std::fs::read_to_string(path); fault: the read fails for another reason
\* than the file not existing (permissions, I/O error)
read_to_string(f, fault) ==
    IF fault THEN [kind |-> "Err", text |-> <<>>]
    ELSE IF f.exists THEN [kind |-> "Ok", text |-> f.text]
    ELSE [kind |-> "NotFound", text |-> <<>>]

\* the arm of "match std::fs::read_to_string(path)" that is taken
ReadArm(ep, r) ==
    IF r.kind = "Ok"
    THEN (IF from_str(ep, r.text).ok THEN "parsed" ELSE "unparsable")
    ELSE r.kind

MatchRead_ParseErrorFails(ep, r) ==
    IF r.kind = "Ok"
    THEN [ret |-> ~from_str(ep, r.text).ok, existing |-> from_str(ep, r.text).v]
    ELSE [ret |-> r.kind = "Err", existing |-> <<>>]

MatchRead_NotFoundFails(ep, r) ==
    IF r.kind = "Ok"
    THEN [ret |-> FALSE,
          existing |-> IF from_str(ep, r.text).ok THEN from_str(ep, r.text).v ELSE <<>>]
    ELSE [ret |-> TRUE, existing |-> <<>>]

MatchRead_ErrAsNotFound(ep, r) ==
    IF r.kind = "Ok"
    THEN [ret |-> FALSE, existing |-> from_str(ep, r.text).v]
    ELSE [ret |-> FALSE, existing |-> <<>>]

\* let mut existing = match std::fs::read_to_string(path) { ... };
\* ret: the arm returns from submit
MatchRead(ep, r) ==
    IF r.kind = "Ok"
    THEN [ret |-> FALSE,
          existing |-> IF from_str(ep, r.text).ok THEN from_str(ep, r.text).v ELSE <<>>]
    ELSE IF r.kind = "NotFound" THEN [ret |-> FALSE, existing |-> <<>>]
    ELSE [ret |-> TRUE, existing |-> <<>>]

Push_Front(v, e) == <<e>> \o v

\* existing.push(entry.clone())
Push(v, e) == Append(v, e)

\* std::fs::write(path, text) is File::create(path)?.write_all(text): create
\* truncates the file, write_all writes in place.  n = -1: create fails;
\* 0 <= n < Len(text): the write fails after n tokens; n = Len(text): success
fs_write(f, text, n) ==
    IF n < 0 THEN [ok |-> FALSE, file |-> f]
    ELSE [ok |-> n = Len(text), file |-> FileOf(SubSeq(text, 1, n))]

Saved == [status |-> STATUS_OK, body |-> "Saved"]
ReadFailed == [status |-> INTERNAL_SERVER_ERROR, body |-> "Failed to read storage file"]
WriteFailed == [status |-> INTERNAL_SERVER_ERROR, body |-> "Failed to write storage file"]
NoResponse == [status |-> 0, body |-> ""]

NoEntry == ResponseEntry(0, EmptyMap)

(***************************************************************************)
(* tokio::sync::Mutex<()>                                                  *)
(***************************************************************************)
TryLock_Always(l) == TRUE

\* the lock can be taken when no request holds it
TryLock(l) == l = 0

DropGuard_Forgotten(l) == l

\* _guard goes out of scope when submit returns: the lock is free again
DropGuard(l) == 0

SuspensionPoints_AsyncWrite == {"lock", "write"}

\* the positions at which submit awaits: file_lock.lock().await is its only
\* .await, the file system calls are the blocking std::fs ones
SuspensionPoints == {"lock"}

(***************************************************************************)
(* Inputs.                                                                 *)
(***************************************************************************)
Q == <<"q">>
R == <<"r">>

Names == {<<>>, <<" ">>, Q, <<" ", "q">>, <<"q", " ">>, R}
Vals == {<<>>, <<" ">>, <<"a">>, <<" ", "a", " ">>}

SeqsUpTo(S, n) == UNION {[1..k -> S] : k \in 0..n}

FieldLists == SeqsUpTo({FieldDef(n) : n \in Names}, MaxFields)

\* the field lists a running server can hold: those load_config accepts
LoadedFieldLists == {load_config(fl).fields : fl \in {x \in FieldLists : load_config(x).ok}}

AllForms == UNION {[K -> Vals] : K \in {X \in SUBSET Names : Cardinality(X) <= MaxFormKeys}}

\* the requests of the concurrent runs
Forms == {(Q :> <<" ">>) @@ (R :> <<"a">>), (Q :> <<" ", "a", " ">>)}

StoredA == [timestamp |-> 0, answers |-> (Q :> JStr(<<"a">>))]
StoredNull == [timestamp |-> 0, answers |-> (Q :> JNull)]

\* the store file when the server starts: absent, written by an earlier run
\* of either entry point, or cut short
InitFiles == {NoFile,
              FileOf(<<Punct("["), Object(StoredA), Punct("]")>>),
              FileOf(<<Punct("["), Object(StoredA), Punct(","), Object(StoredNull), Punct("]")>>),
              FileOf(<<Punct("["), Object(StoredA), Punct(",")>>)}

(***************************************************************************)
(* The server: one AppState, NumReq requests to POST /submit.              *)
(***************************************************************************)
InitRequests ==
    /\ file_lock = 0
    /\ pc = [p \in Procs |-> "start"]
    /\ form = [p \in Procs |-> EmptyMap]
    /\ entry = [p \in Procs |-> NoEntry]
    /\ existing = [p \in Procs |-> <<>>]
    /\ readAs = [p \in Procs |-> "none"]
    /\ result = [p \in Procs |-> NoResponse]
    /\ now = 0

Init ==
    /\ entryPoint \in {"lib", "bin"}
    /\ rawFields = <<FieldDef(Q)>>
    /\ loaded = load_config(rawFields)
    /\ loaded.ok
    /\ cfg = loaded.fields
    /\ file \in InitFiles
    /\ initFile = file
    /\ phase = "serving"
    /\ widgets = <<>>
    /\ InitRequests

\* submit up to the lock: the entry is built and stamped
Submit(p, raw) ==
    /\ phase = "serving"
    /\ pc[p] = "start"
    /\ form' = [form EXCEPT ![p] = raw]
    /\ entry' = [entry EXCEPT ![p] = ResponseEntry(now, Answers(entryPoint, cfg, raw))]
    /\ pc' = [pc EXCEPT ![p] = "lock"]
    /\ UNCHANGED <<phase, widgets, entryPoint, cfg, file, file_lock, existing, readAs, result, now,
                   initFile, rawFields, loaded>>

\* let _guard = state.file_lock.lock().await;
Lock(p) ==
    /\ pc[p] = "lock"
    /\ TryLock(file_lock)
    /\ file_lock' = p
    /\ pc' = [pc EXCEPT ![p] = "read"]
    /\ UNCHANGED <<phase, widgets, entryPoint, cfg, file, form, entry, existing, readAs, result, now,
                   initFile, rawFields, loaded>>

\* the read of the store file, the match on it and the push; the guard is
\* dropped when the arm returns
Read(p) ==
    /\ pc[p] = "read"
    /\ \E fault \in BOOLEAN :
          LET r == read_to_string(file, fault)
              m == MatchRead(entryPoint, r)
          IN  /\ readAs' = [readAs EXCEPT ![p] = ReadArm(entryPoint, r)]
              /\ IF m.ret
                 THEN /\ result' = [result EXCEPT ![p] = ReadFailed]
                      /\ pc' = [pc EXCEPT ![p] = "done"]
                      /\ file_lock' = DropGuard(file_lock)
                      /\ UNCHANGED existing
                 ELSE /\ existing' = [existing EXCEPT ![p] = Push(m.existing, entry[p])]
                      /\ pc' = [pc EXCEPT ![p] = "write"]
                      /\ UNCHANGED <<result, file_lock>>
    /\ UNCHANGED <<phase, widgets, entryPoint, cfg, file, form, entry, now, initFile, rawFields, loaded>>

\* the write of the store file and the response; the guard is dropped
Write(p) ==
    /\ pc[p] = "write"
    /\ LET text == to_string_pretty(entryPoint, existing[p])
       IN  \E n \in (-1)..Len(text) :
              LET w == fs_write(file, text, n)
              IN  /\ file' = w.file
                  /\ result' = [result EXCEPT ![p] = IF w.ok THEN Saved ELSE WriteFailed]
    /\ pc' = [pc EXCEPT ![p] = "done"]
    /\ file_lock' = DropGuard(file_lock)
    /\ UNCHANGED <<phase, widgets, entryPoint, cfg, form, entry, existing, readAs, now, initFile,
                   rawFields, loaded>>

\* time passes
Tick ==
    /\ now < MaxClock
    /\ now' = now + 1
    /\ UNCHANGED <<phase, widgets, entryPoint, cfg, file, file_lock, pc, form, entry, existing, readAs,
                   result, initFile, rawFields, loaded>>

Next ==
    \/ \E p \in Procs : \E raw \in Forms : Submit(p, raw)
    \/ \E p \in Procs : Lock(p)
    \/ \E p \in Procs : Read(p)
    \/ \E p \in Procs : Write(p)
    \/ Tick

Spec == Init /\ [][Next]_vars

(***************************************************************************)
(* Cancellation: when the client disconnects the future of submit is       *)
(* dropped, which can happen only where it is suspended; what it holds is  *)
(* dropped with it.                                                        *)
(***************************************************************************)
Cancel(p) ==
    /\ pc[p] \in SuspensionPoints
    /\ pc' = [pc EXCEPT ![p] = "cancelled"]
    /\ file_lock' = IF file_lock = p THEN DropGuard(file_lock) ELSE file_lock
    /\ UNCHANGED <<phase, widgets, entryPoint, cfg, file, form, entry, existing, readAs,
                   result, now, initFile, rawFields, loaded>>

NextCancel ==
    \/ Next
    \/ \E p \in Procs : Cancel(p)

SpecCancel == Init /\ [][NextCancel]_vars

(***************************************************************************)
(* Scheduling: the runtime polls every ready request, the blocking file    *)
(* system calls return, and the tokio Mutex hands the lock to its waiters  *)
(* in FIFO order, so no waiter is passed over forever.                     *)
(***************************************************************************)
Fairness ==
    \A p \in Procs :
       /\ SF_vars(Lock(p))
       /\ WF_vars(Read(p))
       /\ WF_vars(Write(p))

\* the requests with the clock held still: whether a request returns does
\* not depend on the timestamps
NextLive ==
    \/ \E p \in Procs : \E raw \in Forms : Submit(p, raw)
    \/ \E p \in Procs : Lock(p)
    \/ \E p \in Procs : Read(p)
    \/ \E p \in Procs : Write(p)

SpecLive == Init /\ [][NextLive]_vars /\ Fairness

(***************************************************************************)
(* Startup: load_config on any field list.                                 *)
(***************************************************************************)
NotLoaded == [ok |-> FALSE, err |-> "not loaded", fields |-> <<>>]

InitConfig ==
    /\ entryPoint \in {"lib", "bin"}
    /\ rawFields \in FieldLists
    /\ loaded = NotLoaded
    /\ cfg = <<>>
    /\ file = NoFile
    /\ initFile = file
    /\ phase = "startup"
    /\ widgets = <<>>
    /\ InitRequests

\* let cfg = load_config("config.toml")?: an error returns from main
LoadConfig ==
    /\ phase = "startup"
    /\ loaded = NotLoaded
    /\ loaded' = load_config(rawFields)
    /\ cfg' = loaded'.fields
    /\ phase' = IF loaded'.ok THEN "startup" ELSE "exited"
    /\ UNCHANGED <<widgets, entryPoint, file, file_lock, pc, form, entry, existing, readAs,
                   result, now, initFile, rawFields>>

\* the caller of the library's run_server(cfg, output_file, addr) passes the
\* AppConfig that load_config returned
CallerPassesLoaded == loaded.ok /\ cfg = loaded.fields

\* main.rs main after load_config, lib.rs run_server: the state is built
\* from cfg and axum::serve accepts requests
Serve ==
    /\ phase = "startup"
    /\ IF entryPoint = "bin" THEN loaded # NotLoaded ELSE CallerPassesLoaded
    /\ phase' = "serving"
    /\ UNCHANGED <<widgets, entryPoint, cfg, file, file_lock, pc, form, entry, existing,
                   readAs, result, now, initFile, rawFields, loaded>>

NextConfig ==
    \/ LoadConfig
    \/ Serve
    \/ \E raw \in Forms : Submit(1, raw)

SpecConfig == InitConfig /\ [][NextConfig]_vars

(***************************************************************************)
(* The normalizer on any accepted field list and any raw mapping.          *)
(***************************************************************************)
InitNormalize ==
    /\ entryPoint \in {"lib", "bin"}
    /\ rawFields \in {x \in FieldLists : load_config(x).ok}
    /\ loaded = load_config(rawFields)
    /\ cfg = loaded.fields
    /\ file = NoFile
    /\ initFile = file
    /\ phase = "serving"
    /\ widgets = <<>>
    /\ InitRequests

NextNormalize == \E raw \in AllForms : Submit(1, raw)

SpecNormalize == InitNormalize /\ [][NextNormalize]_vars

(***************************************************************************)
(* handlers.rs: FieldDef::widget, called for each field when the form is   *)
(* rendered.                                                               *)
(***************************************************************************)
\* a FieldDef with its answer_type and its options (Option<Vec<String>>)
FieldOf(n, t, o) == [name |-> n, answer_type |-> t, options |-> o]

\* enum FieldWidget
Checkbox == [kind |-> "Checkbox", options |-> <<>>, hint |-> ""]
Textarea == [kind |-> "Textarea", options |-> <<>>, hint |-> ""]
Select(opts) == [kind |-> "Select", options |-> opts, hint |-> ""]
Input(other) == [kind |-> "Input", options |-> <<>>, hint |-> other]

widget_NoTextarea(f) ==
    CASE f.answer_type = "checkbox" -> Checkbox
      [] f.answer_type = "select" ->
            Select(IF f.options.some THEN f.options.v ELSE <<>>)
      [] OTHER -> Input(f.answer_type)

\* FieldDef::widget
widget(f) ==
    CASE f.answer_type = "checkbox" -> Checkbox
      [] f.answer_type = "textarea" -> Textarea
      [] f.answer_type = "select" ->
            Select(IF f.options.some THEN f.options.v ELSE <<>>)
      [] OTHER -> Input(f.answer_type)

AnswerTypes == {"checkbox", "textarea", "select", "text", "Checkbox", ""}
OptionLists == {None, Some(<<>>), Some(<<"a", "b">>)}
WidgetNames == {Q, R, <<"q", " ">>}

WidgetFields ==
    {FieldOf(n, t, o) : n \in WidgetNames, t \in AnswerTypes, o \in OptionLists}

InitWidget ==
    /\ entryPoint = "lib"
    /\ rawFields \in {x \in SeqsUpTo(WidgetFields, MaxFields) : load_config(x).ok}
    /\ loaded = load_config(rawFields)
    /\ cfg = loaded.fields
    /\ file = NoFile
    /\ initFile = file
    /\ phase = "serving"
    /\ widgets = <<>>
    /\ InitRequests

\* render_form: the template resolves the widget of the next field
RenderField ==
    /\ phase = "serving"
    /\ Len(widgets) < Len(cfg)
    /\ widgets' = Append(widgets, widget(cfg[Len(widgets) + 1]))
    /\ UNCHANGED <<phase, entryPoint, cfg, file, file_lock, pc, form, entry, existing,
                   readAs, result, now, initFile, rawFields, loaded>>

NextWidget == RenderField

SpecWidget == InitWidget /\ [][NextWidget]_vars

(***************************************************************************)
(* Properties.                                                             *)
(***************************************************************************)
\* the sequence the running entry point reads from store file f (empty when
\* f is absent or does not parse)
Stored(f) ==
    IF f.exists /\ from_str(entryPoint, f.text).ok
    THEN from_str(entryPoint, f.text).v
    ELSE <<>>

\* the requests that have called submit
Called == {p \in Procs : pc[p] # "start"}

InBody(p) == pc[p] \in {"read", "write"}

\* the JSON objects of store file f, when it is a well-formed array
Objects(f) == [j \in 1..((Len(f.text) - 1) \div 2) |-> f.text[2 * j].r]

IsBlank(s) == Trim(s) = <<>>

\* C1: once every call that was made has returned successfully, the store
\* file parses, begins with the entries it held at startup, and continues with
\* exactly one entry per call, in some order: none lost, none duplicated.
C1_NoLostAppend ==
    (Called # {} /\ \A p \in Called : pc[p] = "done" /\ result[p] = Saved)
    => /\ file.exists
       /\ from_str(entryPoint, file.text).ok
       /\ LET before == Stored(initFile)
              after == Stored(file)
              n == Len(before)
          IN  /\ Len(after) = n + Cardinality(Called)
              /\ SubSeq(after, 1, n) = before
              /\ \E pos \in [Called -> 1..Cardinality(Called)] :
                    /\ \A p, q \in Called : p # q => pos[p] # pos[q]
                    /\ \A p \in Called : after[n + pos[p]] = entry[p]

\* C1 witness: all NumReq calls were made and saved, and they overlapped: the
\* entry stamped later was appended first.
C1_Witness ==
    /\ Called = Procs
    /\ NumReq >= 2
    /\ \A p \in Procs : pc[p] = "done" /\ result[p] = Saved
    /\ Len(Stored(initFile)) >= 1
    /\ \E i, j \in 1..Len(Stored(file)) :
          i < j /\ Stored(file)[i].timestamp > Stored(file)[j].timestamp

\* C2: at most one request is between its read of the store file and its
\* write; that request holds the lock, and when it is about to write, the file
\* still holds what it read (nobody wrote in between).
C2_MutualExclusion ==
    /\ Cardinality({p \in Procs : InBody(p)}) <= 1
    /\ \A p \in Procs : InBody(p) => file_lock = p
    /\ \A p \in Procs :
          pc[p] = "write" => existing[p] = Append(Stored(file), entry[p])

\* C2 witness: one request is about to write while another waits for the lock.
C2_Witness ==
    \E p, q \in Procs : p # q /\ pc[p] = "write" /\ pc[q] = "lock" /\ file_lock = p

\* "deserializes to a valid sequence of Submission Records": timestamp plus
\* answers that are strings or null, which is what handlers.rs reads
ValidStore(f) == f.exists => from_str("lib", f.text).ok

\* C3: a store file that was absent or valid at startup is, in every reachable
\* state, absent or a valid sequence of Submission Records.
C3_StoreAlwaysValid == ValidStore(initFile) => ValidStore(file)

\* C4: a write step on a store file holding records that does not end in
\* success ends in a 500 and leaves the store file exactly as it was, every
\* stored record still present.
C4_FailedWriteLeavesFile ==
    [][\A p \in Procs :
          (pc[p] = "write" /\ pc'[p] = "done" /\ result'[p] # Saved
           /\ file.exists /\ from_str(entryPoint, file.text).ok)
          => (result'[p].status = INTERNAL_SERVER_ERROR /\ file' = file)]_vars

\* C5: a successful append to a store file holding a valid sequence S leaves
\* it holding S followed by the new entry, so A then B leaves S, A, B.
C5_AppendAtEnd ==
    [][\A p \in Procs :
          (pc[p] = "write" /\ result'[p] = Saved
           /\ file.exists /\ from_str(entryPoint, file.text).ok)
          => /\ file'.exists
             /\ from_str(entryPoint, file'.text)
                  = ParseOk(Append(from_str(entryPoint, file.text).v, entry[p]))]_vars

\* C5 witness: two saved appends to a store file that held one record.
C5_Witness ==
    /\ from_str(entryPoint, initFile.text).ok
    /\ Len(Stored(initFile)) = 1
    /\ Cardinality({p \in Procs : result[p] = Saved}) = 2
    /\ Len(Stored(file)) = 3
    /\ file_lock = 0

\* C6: a field list with two identifiers that are equal after trimming is
\* rejected by load_config, and no field list is returned.
C6_TrimmedDuplicateRejected ==
    (loaded # NotLoaded
     /\ \E i, j \in 1..Len(rawFields) :
           i < j /\ Trim(rawFields[i].name) = Trim(rawFields[j].name))
    => (~loaded.ok /\ cfg = <<>>)

\* C7: every key of the raw mapping is a key of the answers of the entry, and
\* in handlers.rs it maps to the raw value, trimmed (absent when blank).
C7_NoKeyDropped ==
    \A p \in Called :
       /\ DOMAIN form[p] \subseteq DOMAIN entry[p].answers
       /\ entryPoint = "lib" =>
             \A k \in DOMAIN form[p] :
                entry[p].answers[k]
                  = IF IsBlank(form[p][k]) THEN None ELSE Some(Trim(form[p][k]))

\* C7 witness: a raw mapping with a declared and an undeclared key.
C7_Witness ==
    /\ entryPoint = "lib"
    /\ pc[1] = "lock"
    /\ \E k, u \in DOMAIN form[1] :
          /\ k \in {cfg[i].name : i \in 1..Len(cfg)}
          /\ u \notin {cfg[i].name : i \in 1..Len(cfg)}
          /\ ~IsBlank(form[1][u])

\* C8: in every record a saved append wrote, a blank submitted value is null,
\* and no value is an empty string or has leading or trailing whitespace.
C8_BlankIsNull ==
    \A p \in Procs :
       result[p] = Saved =>
          LET o == EncodeEntry(entryPoint, entry[p])
          IN  /\ \A k \in DOMAIN form[p] : IsBlank(form[p][k]) => o.answers[k] = JNull
              /\ \A k \in DOMAIN o.answers :
                    o.answers[k].t = "str" =>
                       (o.answers[k].s # <<>> /\ Trim(o.answers[k].s) = o.answers[k].s)

\* C9: a request that reads a store file whose content does not parse goes on
\* to the write with the new entry alone, never to a read error; and when its
\* write succeeds it is saved and the file holds exactly that one record.
C9_CorruptTreatedAsEmpty ==
    /\ [][\A p \in Procs :
             (pc[p] = "read" /\ readAs'[p] = "unparsable")
             => (pc'[p] = "write" /\ existing'[p] = <<entry[p]>>
                 /\ result'[p] = NoResponse)]_vars
    /\ [][\A p \in Procs :
             (pc[p] = "write" /\ readAs[p] = "unparsable" /\ pc'[p] = "done")
             => /\ result'[p] \in {Saved, WriteFailed}
                /\ result'[p] = Saved <=> file' = FileOf(to_string_pretty(entryPoint, <<entry[p]>>))
                /\ result'[p] = Saved =>
                      from_str(entryPoint, file'.text) = ParseOk(<<entry[p]>>)]_vars

\* C9 witness: a saved request that had read unparsable content; the file
\* holds its record alone.
C9_Witness ==
    \E p \in Procs :
       /\ readAs[p] = "unparsable"
       /\ result[p] = Saved
       /\ initFile.exists
       /\ Stored(file) = <<entry[p]>>

\* C10: a read that fails for another reason than the file not existing ends
\* the request with the 500 "Failed to read storage file"; nothing is pushed,
\* no write follows, and the store file is unchanged.
C10_ReadErrorAborts ==
    /\ [][\A p \in Procs :
             (pc[p] = "read" /\ readAs'[p] = "Err")
             => (pc'[p] = "done" /\ result'[p] = ReadFailed
                 /\ result'[p].status = INTERNAL_SERVER_ERROR
                 /\ existing'[p] = <<>> /\ file' = file)]_vars
    /\ [][\A p \in Procs : pc[p] = "write" => readAs[p] # "Err"]_vars

\* C10 witness: a request ended by a read error on an existing store file.
C10_Witness ==
    \E p \in Procs :
       /\ readAs[p] = "Err"
       /\ result[p] = ReadFailed
       /\ file.exists
       /\ file = initFile

\* no identifier is empty after trimming and no identifier occurs twice
ValidIdentifiers(fields) ==
    /\ \A i \in 1..Len(fields) : ~IsBlank(fields[i].name)
    /\ \A i, j \in 1..Len(fields) : i < j => fields[i].name # fields[j].name

C12_ValidListAccepted ==
    (loaded # NotLoaded /\ ValidIdentifiers(rawFields))
    => (loaded.ok /\ loaded.fields = rawFields /\ cfg = rawFields)

\* C12 witness: an accepted list of two different fields.
C12_Witness ==
    /\ loaded # NotLoaded
    /\ ValidIdentifiers(rawFields)
    /\ Len(rawFields) = 2
    /\ loaded.ok
    /\ cfg[1] # cfg[2]

\* C13: every field resolves to exactly the widget its answer_type names:
\* "checkbox", "textarea", "select" over its options (none when absent), and
\* for any other string the input with that string as hint; two fields with
\* the same answer_type and options resolve alike, whatever else differs.
C13_WidgetTable ==
    /\ \A i \in 1..Len(widgets) :
          LET f == cfg[i]
              w == widgets[i]
          IN  /\ f.answer_type = "checkbox" => w = Checkbox
              /\ f.answer_type = "textarea" => w = Textarea
              /\ (f.answer_type = "select" /\ f.options.some) => w = Select(f.options.v)
              /\ (f.answer_type = "select" /\ ~f.options.some) => w = Select(<<>>)
              /\ f.answer_type \notin {"checkbox", "textarea", "select"}
                    => w = Input(f.answer_type)
              /\ w.kind \in {"Checkbox", "Textarea", "Select", "Input"}
    /\ \A i, j \in 1..Len(widgets) :
          (cfg[i].answer_type = cfg[j].answer_type /\ cfg[i].options = cfg[j].options)
          => widgets[i] = widgets[j]

\* C13 witness: a textarea and a select with options have been resolved.
C13_Witness ==
    /\ Len(widgets) = 2
    /\ \E i, j \in 1..2 :
          /\ cfg[i].answer_type = "textarea" /\ widgets[i].kind = "Textarea"
          /\ cfg[j].answer_type = "select" /\ widgets[j].options = <<"a", "b">>

\* C14: a request that finds no store file goes on to the write with the new
\* entry alone, never to a read error; and when its write succeeds it is saved,
\* the file exists and holds exactly one record, with the timestamp and the
\* answers of the submission.
C14_AbsentFileStartsEmpty ==
    /\ [][\A p \in Procs :
             (pc[p] = "read" /\ readAs'[p] = "NotFound")
             => (~file.exists /\ pc'[p] = "write" /\ existing'[p] = <<entry[p]>>
                 /\ result'[p] = NoResponse)]_vars
    /\ [][\A p \in Procs :
             (pc[p] = "write" /\ readAs[p] = "NotFound" /\ pc'[p] = "done")
             => /\ result'[p] \in {Saved, WriteFailed}
                /\ result'[p] = Saved =>
                      /\ file'.exists
                      /\ Len(file'.text) = 3
                      /\ from_str(entryPoint, file'.text) = ParseOk(<<entry[p]>>)
                      /\ LET o == file'.text[2].r
                         IN  /\ o.timestamp = entry[p].timestamp
                             /\ DOMAIN form[p] \subseteq DOMAIN o.answers
                             /\ \A k \in DOMAIN form[p] :
                                   o.answers[k] =
                                      IF entryPoint = "bin" THEN JStr(form[p][k])
                                      ELSE IF IsBlank(form[p][k]) THEN JNull
                                      ELSE JStr(Trim(form[p][k]))]_vars

\* C14 witness: there was no store file, and a saved request left one record.
C14_Witness ==
    \E p \in Procs :
       /\ ~initFile.exists
       /\ readAs[p] = "NotFound"
       /\ result[p] = Saved
       /\ file.exists
       /\ Stored(file) = <<entry[p]>>

\* C15: a request that is between lock acquisition and return is never
\* cancelled; the lock leaves its holder only when the holder has returned
\* with success or a store error; a cancelled request has neither read nor
\* written.
C15_NoCancelInBody ==
    /\ [][\A p \in Procs : InBody(p) => pc'[p] \in {"read", "write", "done"}]_vars
    /\ [][\A p \in Procs :
             (file_lock = p /\ file_lock' # p)
             => (pc'[p] = "done" /\ result'[p] \in {Saved, ReadFailed, WriteFailed})]_vars
    /\ [](\A p \in Procs :
             pc[p] = "cancelled"
             => (readAs[p] = "none" /\ existing[p] = <<>> /\ result[p] = NoResponse
                 /\ file_lock # p))

\* C15 witness: a waiting request was cancelled while another one, holding
\* the lock, is about to write.
C15_Witness ==
    \E p, q \in Procs : pc[p] = "cancelled" /\ pc[q] = "write" /\ file_lock = q

\* C16: a request that has returned, with success, a read error or a write
\* error, does not hold the lock; and every request waiting for the lock
\* eventually returns.
C16_LockAlwaysReleased ==
    /\ [](\A p \in Procs : pc[p] = "done" => file_lock # p)
    /\ \A p \in Procs : (pc[p] = "lock") ~> (pc[p] = "done")

\* C16 witness: a request returned after waiting behind one that ended in a
\* store error.
C16_Witness ==
    \E p, q \in Procs :
       /\ p # q
       /\ result[p] \in {ReadFailed, WriteFailed}
       /\ pc[q] = "done"
       /\ result[q] = Saved
       /\ readAs[q] # "none"
       /\ file_lock = 0

\* the identifiers the Form Definition declares
Declared == {cfg[i].name : i \in 1..Len(cfg)}

\* C17: in handlers.rs the keys of the answers are exactly the declared
\* identifiers and the raw keys; a declared identifier that was not submitted
\* maps to absent; the loop over the left-over form sees exactly the raw keys
\* that are not declared, and leaves the entries of the declared fields as the
\* first loop made them.
C17_KeysAreDeclaredAndRaw ==
    \A p \in Called :
       entryPoint = "lib" =>
          LET a == entry[p].answers
              first == DeclaredPass(cfg, 1, form[p], EmptyMap)
          IN  /\ DOMAIN a = Declared \cup DOMAIN form[p]
              /\ \A k \in Declared \ DOMAIN form[p] : a[k] = None
              /\ DOMAIN first.form = DOMAIN form[p] \ Declared
              /\ DOMAIN first.answers = Declared
              /\ \A k \in Declared : a[k] = first.answers[k]

\* C17 witness: one declared field submitted, one declared field not
\* submitted, one undeclared key.
C17_Witness ==
    /\ entryPoint = "lib"
    /\ pc[1] = "lock"
    /\ Declared \cap DOMAIN form[1] # {}
    /\ Declared \ DOMAIN form[1] # {}
    /\ DOMAIN form[1] \ Declared # {}

\* C18: the store file a saved append has written is read back by the next
\* append of either entry point as exactly the sequence that was written: it
\* parses, record for record, and nothing is lost in the round trip.
C18_RoundTripEitherEntryPoint ==
    [][\A p \in Procs :
          (pc[p] = "write" /\ result'[p] = Saved)
          => \A ep \in {"lib", "bin"} :
                /\ from_str(ep, file'.text).ok
                /\ Len(from_str(ep, file'.text).v) = Len(existing[p])
                /\ to_string_pretty(ep, from_str(ep, file'.text).v) = file'.text]_vars

\* the timestamps of a sequence of entries never decrease
InTimestampOrder(v) ==
    \A i, j \in 1..Len(v) : i < j => v[i].timestamp <= v[j].timestamp

\* C19: while every append has succeeded, the records of the store file are
\* in non-decreasing timestamp order.
C19_TimestampOrder ==
    (\A p \in Procs : result[p] \in {NoResponse, Saved})
    => InTimestampOrder(Stored(file))

\* C19 amended: an entry is stamped no earlier than any record in the store
\* file at the moment its submit call begins, and a saved append of an entry
\* stamped no earlier than the records in the file keeps the file in
\* timestamp order; so appends that do not overlap are in timestamp order.
C19_SequentialTimestampOrder ==
    /\ [][\A q \in Procs :
             (pc[q] = "start" /\ pc'[q] = "lock")
             => \A i \in 1..Len(Stored(file)) :
                   Stored(file)[i].timestamp <= entry'[q].timestamp]_vars
    /\ [][\A q \in Procs :
             (pc[q] = "write" /\ result'[q] = Saved
              /\ InTimestampOrder(Stored(file))
              /\ \A i \in 1..Len(Stored(file)) :
                    Stored(file)[i].timestamp <= entry[q].timestamp)
             => InTimestampOrder(Stored(file'))]_vars

\* C19 witness: every request was saved and the file holds a record stamped
\* later after a record stamped earlier.
C19_Witness ==
    /\ \A p \in Procs : pc[p] = "done" /\ result[p] = Saved
    /\ InTimestampOrder(Stored(file))
    /\ \E i, j \in 1..Len(Stored(file)) :
          i < j /\ Stored(file)[i].timestamp < Stored(file)[j].timestamp

====
